---------------------------- MODULE Spec2Model ----------------------------
(***************************************************************************)
(* A model of data_parser.py: the two ODS loaders (parse_pgn_file and      *)
(* parse_ods_file), the identifier decoders (get_pgn, extract_pgn,         *)
(* get_can_id), the cycle-time classifier and report writer (plot_data)    *)
(* and the command-line entry point.                                       *)
(*                                                                         *)
(* Text is a sequence of one-character strings, so that split(";"),        *)
(* float(), int(s, 16), hex() and str() are modelled by what they do.      *)
(* Timestamps are integer milliseconds; a comparison with                  *)
(* median * (1 + p/100) is carried out exactly on integers scaled by 200   *)
(* (for integer medians and half-integer medians of magnitude up to 2000   *)
(* and p in {0, 5} the IEEE-754 double evaluation compares the same way).  *)
(***************************************************************************)
EXTENDS Integers, Sequences, FiniteSets, TLC

VARIABLES
    pc,                   \* where the program is
    err,                  \* the exception that ended the run, "" if none
    num_rows,             \* int(sys.argv[4])
    pgn_doc,              \* the reference document: a sequence of tables
    data_doc,             \* the capture document: a sequence of tables
    rows,                 \* rows still to visit in the current loader loop
    pgn_list,             \* parse_pgn_file's list pgn_values
    pgn_values,           \* the reference set handed to plot_data
    time_values,
    id_values,
    threshold_percentage,
    unique_ids,           \* identifiers plot_data has still to visit
    category_A,           \* dict in insertion order: sequence of [key, count]
    category_B,           \* set of keys
    plots,                \* the savefig requests, in order
    files,                \* file name -> sequence of lines written
    stdout,               \* printed lines
    msg_id,               \* argument of the PGN decoders
    pgn,                  \* result of get_pgn, -1 before the call
    epgn                  \* result of extract_pgn, -1 before the call

vars == <<pc, err, num_rows, pgn_doc, data_doc, rows, pgn_list, pgn_values,
          time_values, id_values, threshold_percentage, unique_ids,
          category_A, category_B, plots, files, stdout, msg_id, pgn, epgn>>

---------------------------------------------------------------------------
(* Bounds of the model *)

MaxN == 2          \* largest row count given on the command line
MaxTail == 2       \* rows of the first capture table after its header rows
MaxRefRows == 1    \* rows of the reference document
MaxRec == 4        \* records handed to plot_data directly
MaxTimes == 5      \* timestamps of the single-identifier captures

(* Program constants *)

HeaderRows == 25             \* rows skipped by parse_ods_file
RangeLimit == 2048           \* 0x800
CanIdMask == 536870911       \* 0x1FFFFFFF
DefaultPercentage == 5       \* threshold_percentage=5
ArgCount == 5                \* len(sys.argv) of a well-formed call

---------------------------------------------------------------------------
(* Arithmetic on bits *)

RECURSIVE BitAnd(_, _)
BitAnd(a, b) ==
    IF b = 0 THEN 0
    ELSE 2 * BitAnd(a \div 2, b \div 2) + (a % 2) * (b % 2)

RECURSIVE BitOr(_, _)
BitOr(a, b) ==
    IF a = 0 THEN b
    ELSE IF b = 0 THEN a
    ELSE 2 * BitOr(a \div 2, b \div 2)
         + (IF (a % 2) + (b % 2) > 0 THEN 1 ELSE 0)

RECURSIVE Pow2(_)
Pow2(k) == IF k = 0 THEN 1 ELSE 2 * Pow2(k - 1)

Shr(a, k) == a \div Pow2(k)
Shl(a, k) == a * Pow2(k)

---------------------------------------------------------------------------
(* Text conversions *)

HexDigits == <<"0", "1", "2", "3", "4", "5", "6", "7",
               "8", "9", "a", "b", "c", "d", "e", "f">>
UpperDigits == <<"0", "1", "2", "3", "4", "5", "6", "7",
                 "8", "9", "A", "B", "C", "D", "E", "F">>

IsHexDigit(c) == \E i \in 1..16 : HexDigits[i] = c \/ UpperDigits[i] = c
HexDigitVal(c) == (CHOOSE i \in 1..16 : HexDigits[i] = c \/ UpperDigits[i] = c) - 1
IsDecDigit(c) == \E i \in 1..10 : HexDigits[i] = c
DecDigitVal(c) == (CHOOSE i \in 1..10 : HexDigits[i] = c) - 1

RECURSIVE HexBody(_)
HexBody(n) ==
    IF n < 16 THEN <<HexDigits[n + 1]>>
    ELSE HexBody(n \div 16) \o <<HexDigits[(n % 16) + 1]>>

\* hex(n)
Hex(n) == IF n < 0 THEN <<"-", "0", "x">> \o HexBody(-n)
          ELSE <<"0", "x">> \o HexBody(n)

RECURSIVE DecBody(_)
DecBody(n) ==
    IF n < 10 THEN <<HexDigits[n + 1]>>
    ELSE DecBody(n \div 10) \o <<HexDigits[(n % 10) + 1]>>

\* str(n)
Dec(n) == IF n < 0 THEN <<"-">> \o DecBody(-n) ELSE DecBody(n)

RECURSIVE HexValue(_, _)
HexValue(s, acc) ==
    IF s = <<>> THEN acc
    ELSE HexValue(Tail(s), 16 * acc + HexDigitVal(Head(s)))

StripSign(s) == IF s # <<>> /\ Head(s) \in {"-", "+"} THEN Tail(s) ELSE s
StripPrefix(s) ==
    IF Len(s) >= 2 /\ s[1] = "0" /\ s[2] \in {"x", "X"}
    THEN SubSeq(s, 3, Len(s)) ELSE s

\* int(s, 16): an optional sign, an optional 0x, then hexadecimal digits.
\* The result is [ok |-> TRUE, val |-> n], or ok = FALSE for a ValueError.
ParseHex(s) ==
    LET body == StripPrefix(StripSign(s))
        neg  == s # <<>> /\ Head(s) = "-"
    IN  IF body = <<>> \/ \E i \in 1..Len(body) : ~IsHexDigit(body[i])
        THEN [ok |-> FALSE, val |-> 0]
        ELSE [ok |-> TRUE,
              val |-> IF neg THEN -HexValue(body, 0) ELSE HexValue(body, 0)]

RECURSIVE DecValue(_, _)
DecValue(s, acc) ==
    IF s = <<>> THEN acc
    ELSE DecValue(Tail(s), 10 * acc + DecDigitVal(Head(s)))

\* float(s), for the texts of whole numbers of milliseconds.
ParseFloat(s) ==
    LET body == StripSign(s)
        neg  == s # <<>> /\ Head(s) = "-"
    IN  IF body = <<>> \/ \E i \in 1..Len(body) : ~IsDecDigit(body[i])
        THEN [ok |-> FALSE, val |-> 0]
        ELSE [ok |-> TRUE,
              val |-> IF neg THEN -DecValue(body, 0) ELSE DecValue(body, 0)]

\* value.split(";")
RECURSIVE SplitFrom(_, _)
SplitFrom(s, cur) ==
    IF s = <<>> THEN <<cur>>
    ELSE IF Head(s) = ";" THEN <<cur>> \o SplitFrom(Tail(s), <<>>)
    ELSE SplitFrom(Tail(s), Append(cur, Head(s)))

Split(s) == SplitFrom(s, <<>>)

---------------------------------------------------------------------------
(* Identifier decoders *)

get_pgn(x) ==
    LET pdu_format   == BitAnd(Shr(x, 16), 3)
        pdu_specific == BitAnd(Shr(x, 8), 255)
    IN  IF pdu_format = 0
        THEN BitOr(Shl(pdu_specific, 8), BitAnd(Shr(x, 16), 255))
        ELSE IF pdu_format = 1
        THEN BitOr(Shl(pdu_specific, 8), BitAnd(Shr(x, 16), 255))
        ELSE IF pdu_format = 2
        THEN BitOr(Shl(pdu_specific, 8), BitAnd(Shr(x, 16), 255))
        ELSE BitOr(Shl(pdu_specific, 8), BitAnd(Shr(x, 16), 255))

extract_pgn(extended_id) == BitAnd(Shr(extended_id, 8), 65535)

get_can_id(id_hex) == BitAnd(id_hex, CanIdMask)

---------------------------------------------------------------------------
(* Documents: a document is a sequence of tables, a table a sequence of    *)
(* rows, and a row the sequence of the texts of its table-cell paragraphs. *)

\* The window opened one row early: position() >= 25.
InWindowFrom25(pos, n) == pos >= HeaderRows /\ pos <= HeaderRows + n

\* position() > 25 and position() <= 25 + num_rows; position() is the
\* row's place among the table-row children of its own table.
InWindow(pos, n) == pos > HeaderRows /\ pos <= HeaderRows + n

RECURSIVE WindowFrom(_, _, _)
WindowFrom(table, i, n) ==
    IF i > Len(table) THEN <<>>
    ELSE (IF InWindow(i, n) THEN <<table[i]>> ELSE <<>>)
         \o WindowFrom(table, i + 1, n)

TableWindow(table, n) == WindowFrom(table, 1, n)

\* "//table:table-row[position() > 25 and position() <= 25 + num_rows]"
RECURSIVE SelectRows(_, _)
SelectRows(doc, n) ==
    IF doc = <<>> THEN <<>>
    ELSE TableWindow(Head(doc), n) \o SelectRows(Tail(doc), n)

\* "//table:table-row"
RECURSIVE AllRows(_)
AllRows(doc) ==
    IF doc = <<>> THEN <<>> ELSE Head(doc) \o AllRows(Tail(doc))

\* set(list)
ToSet(s) == {s[i] : i \in 1..Len(s)}

---------------------------------------------------------------------------
(* The documents the model reads *)

RECURSIVE Join(_)
Join(fields) ==
    IF Len(fields) = 1 THEN fields[1]
    ELSE fields[1] \o <<";">> \o Join(Tail(fields))

CaptureText(timeText, idText) ==
    Join(<<<<"1">>, timeText, <<"0">>, <<"0">>, <<"8">>, idText, <<"f", "f">>>>)

NoCellRow == <<>>
RecRow(t, idText) == <<CaptureText(Dec(t), idText)>>
BadFieldsRow == <<Join(<<<<"1">>, <<"1", "0", "0">>>>)>>
BadTimeRow == <<CaptureText(<<"t">>, <<"1", "2", "3">>)>>
BadIdRow == <<CaptureText(<<"1", "0", "0">>, <<"z", "z">>)>>

Id123 == <<"1", "2", "3">>
Id900 == <<"9", "0", "0">>

RowPool == {NoCellRow, RecRow(100, Id123), RecRow(0, Id123), RecRow(100, Id900),
            BadFieldsRow, BadTimeRow, BadIdRow}

HeaderPool == {BadIdRow, RecRow(0, Id123)}

SeqsUpTo(S, n) == UNION {[1..k -> S] : k \in 0..n}

Filler(row) == [i \in 1..HeaderRows |-> row]

\* A second sheet: its own header rows and one record in its row 26.
SecondTable == Filler(RecRow(0, Id123)) \o <<RecRow(0, Id900)>>

DataDocs ==
    LET first == {Filler(h) \o tail : h \in HeaderPool,
                                      tail \in SeqsUpTo(RowPool, MaxTail)}
    IN  {<<t>> : t \in first} \cup {<<t, SecondTable>> : t \in first}

RefPool == {NoCellRow, <<Id123>>, <<<<"0", "x", "7", "F", "F">>>>, <<<<"z", "z">>>>}

RefDocs == {<<t>> : t \in SeqsUpTo(RefPool, MaxRefRows)}

---------------------------------------------------------------------------
(* The loaders *)

NoFiles == <<>>

InitCommon ==
    /\ err = ""
    /\ rows = <<>>
    /\ pgn_list = <<>>
    /\ unique_ids = {}
    /\ category_A = <<>>
    /\ category_B = {}
    /\ plots = <<>>
    /\ files = NoFiles
    /\ stdout = <<>>
    /\ msg_id = 0
    /\ pgn = -1
    /\ epgn = -1

Init ==
    /\ InitCommon
    /\ pc = "main"
    /\ num_rows = 0
    /\ pgn_doc = <<>>
    /\ data_doc = <<>>
    /\ pgn_values = {}
    /\ time_values = <<>>
    /\ id_values = <<>>
    /\ threshold_percentage = DefaultPercentage

\* if len(sys.argv) != 5: print usage, sys.exit(1); num_rows = int(sys.argv[4])
Main ==
    /\ pc = "main"
    /\ \E argc \in {ArgCount - 1, ArgCount} :
         IF argc # ArgCount
         THEN /\ stdout' = Append(stdout, <<"Usage">>)
              /\ pc' = "exit1"
              /\ UNCHANGED num_rows
         ELSE /\ \E n \in 0..MaxN : num_rows' = n
              /\ pc' = "parse_pgn_file"
              /\ UNCHANGED stdout
    /\ UNCHANGED <<err, pgn_doc, data_doc, rows, pgn_list, pgn_values,
                   time_values, id_values, threshold_percentage, unique_ids,
                   category_A, category_B, plots, files, msg_id, pgn, epgn>>

\* parse_pgn_file: read content.xml, rows = root.xpath("//table:table-row")
PgnOpen ==
    /\ pc = "parse_pgn_file"
    /\ \E doc \in RefDocs :
         /\ pgn_doc' = doc
         /\ rows' = AllRows(doc)
    /\ pgn_list' = <<>>
    /\ pc' = "pgn_loop"
    /\ UNCHANGED <<err, num_rows, data_doc, pgn_values, time_values, id_values,
                   threshold_percentage, unique_ids, category_A, category_B,
                   plots, files, stdout, msg_id, pgn, epgn>>

\* one pass of parse_pgn_file's loop
PgnRow ==
    /\ pc = "pgn_loop"
    /\ rows # <<>>
    /\ LET cells == Head(rows)
       IN  IF Len(cells) > 0
           THEN LET value == ParseHex(cells[1])
                IN  IF value.ok
                    THEN /\ pgn_list' = Append(pgn_list, value.val)
                         /\ rows' = Tail(rows)
                         /\ UNCHANGED <<pc, err>>
                    ELSE /\ pc' = "failed"
                         /\ err' = "ValueError"
                         /\ UNCHANGED <<pgn_list, rows>>
           ELSE /\ rows' = Tail(rows)
                /\ UNCHANGED <<pc, err, pgn_list>>
    /\ UNCHANGED <<num_rows, pgn_doc, data_doc, pgn_values, time_values,
                   id_values, threshold_percentage, unique_ids, category_A,
                   category_B, plots, files, stdout, msg_id, pgn, epgn>>

\* return set(pgn_values)
PgnReturn ==
    /\ pc = "pgn_loop"
    /\ rows = <<>>
    /\ pgn_values' = ToSet(pgn_list)
    /\ pc' = "parse_ods_file"
    /\ UNCHANGED <<err, num_rows, pgn_doc, data_doc, rows, pgn_list,
                   time_values, id_values, threshold_percentage, unique_ids,
                   category_A, category_B, plots, files, stdout, msg_id, pgn,
                   epgn>>

\* parse_ods_file: read content.xml, select the rows of the window
OdsOpen ==
    /\ pc = "parse_ods_file"
    /\ \E doc \in DataDocs :
         /\ data_doc' = doc
         /\ rows' = SelectRows(doc, num_rows)
    /\ time_values' = <<>>
    /\ id_values' = <<>>
    /\ pc' = "ods_loop"
    /\ UNCHANGED <<err, num_rows, pgn_doc, pgn_list, pgn_values,
                   threshold_percentage, unique_ids, category_A, category_B,
                   plots, files, stdout, msg_id, pgn, epgn>>

\* The record of one cell text: split on ";", float(field 1), int(field 5, 16).
\* error is "" or the exception raised.
ParseRecord(value) ==
    LET split_values == Split(value)
    IN  IF Len(split_values) < 2
        THEN [error |-> "IndexError", time_ms |-> 0, id_hex |-> 0]
        ELSE LET t == ParseFloat(split_values[2])
             IN  IF ~t.ok
                 THEN [error |-> "ValueError", time_ms |-> 0, id_hex |-> 0]
                 ELSE IF Len(split_values) < 6
                 THEN [error |-> "IndexError", time_ms |-> 0, id_hex |-> 0]
                 ELSE LET x == ParseHex(split_values[6])
                      IN  IF ~x.ok
                          THEN [error |-> "ValueError", time_ms |-> 0, id_hex |-> 0]
                          ELSE [error |-> "", time_ms |-> t.val, id_hex |-> x.val]

\* A pass of the loop that skips a row it cannot parse.
OdsRowSkipping ==
    /\ pc = "ods_loop"
    /\ rows # <<>>
    /\ LET cells == Head(rows)
           rec == ParseRecord(cells[1])
       IN  IF Len(cells) > 0 /\ rec.error = ""
           THEN /\ time_values' = Append(time_values, rec.time_ms)
                /\ id_values' = Append(id_values, rec.id_hex)
           ELSE UNCHANGED <<time_values, id_values>>
    /\ rows' = Tail(rows)
    /\ UNCHANGED <<pc, err, num_rows, pgn_doc, data_doc, pgn_list, pgn_values,
                   threshold_percentage, unique_ids, category_A, category_B,
                   plots, files, stdout, msg_id, pgn, epgn>>

\* one pass of parse_ods_file's loop
OdsRow ==
    /\ pc = "ods_loop"
    /\ rows # <<>>
    /\ LET cells == Head(rows)
       IN  IF Len(cells) > 0
           THEN LET rec == ParseRecord(cells[1])
                IN  IF rec.error = ""
                    THEN /\ time_values' = Append(time_values, rec.time_ms)
                         /\ id_values' = Append(id_values, rec.id_hex)
                         /\ rows' = Tail(rows)
                         /\ UNCHANGED <<pc, err>>
                    ELSE /\ pc' = "failed"
                         /\ err' = rec.error
                         /\ UNCHANGED <<time_values, id_values, rows>>
           ELSE /\ rows' = Tail(rows)
                /\ UNCHANGED <<pc, err, time_values, id_values>>
    /\ UNCHANGED <<num_rows, pgn_doc, data_doc, pgn_list, pgn_values,
                   threshold_percentage, unique_ids, category_A, category_B,
                   plots, files, stdout, msg_id, pgn, epgn>>

\* return time_values, id_values; main then calls plot_data with the default
\* threshold_percentage
OdsReturn ==
    /\ pc = "ods_loop"
    /\ rows = <<>>
    /\ threshold_percentage' = DefaultPercentage
    /\ pc' = "plot_data"
    /\ UNCHANGED <<err, num_rows, pgn_doc, data_doc, rows, pgn_list, pgn_values,
                   time_values, id_values, unique_ids, category_A, category_B,
                   plots, files, stdout, msg_id, pgn, epgn>>

---------------------------------------------------------------------------
(* plot_data *)

\* The range check without its upper limit.
InRangeNoLimit(unique_id) == unique_id >= 0

\* 0x800 > unique_id >= 0
InRange(unique_id) == RangeLimit > unique_id /\ unique_id >= 0

\* [time_value for id_value, time_value in zip(id_values, time_values)
\*  if id_value == unique_id]
RECURSIVE FilterTimes(_, _, _)
FilterTimes(ids, times, unique_id) ==
    IF ids = <<>> \/ times = <<>> THEN <<>>
    ELSE (IF Head(ids) = unique_id THEN <<Head(times)>> ELSE <<>>)
         \o FilterTimes(Tail(ids), Tail(times), unique_id)

\* The differences taken over range(1, len(t) - 1).
CycleTimesShort(t) == [i \in 1..(Len(t) - 2) |-> t[i + 1] - t[i]]

\* [t[i] - t[i - 1] for i in range(1, len(t))]
CycleTimes(t) == [i \in 1..(Len(t) - 1) |-> t[i + 1] - t[i]]

RECURSIVE Insert(_, _)
Insert(x, sorted) ==
    IF sorted = <<>> THEN <<x>>
    ELSE IF x <= Head(sorted) THEN <<x>> \o sorted
    ELSE <<Head(sorted)>> \o Insert(x, Tail(sorted))

RECURSIVE Sorted(_)
Sorted(s) == IF s = <<>> THEN <<>> ELSE Insert(Head(s), Sorted(Tail(s)))

\* The middle value(s) of the sequence taken without sorting it.
Median2Unsorted(cycle_times) ==
    LET s == cycle_times
        n == Len(s)
    IN  IF n % 2 = 1 THEN 2 * s[(n + 1) \div 2]
        ELSE s[n \div 2] + s[n \div 2 + 1]

\* Twice np.median(cycle_times): the middle value of the sorted sequence, or
\* the mean of the two middle values when the length is even.
Median2(cycle_times) ==
    LET s == Sorted(cycle_times)
        n == Len(s)
    IN  IF n % 2 = 1 THEN 2 * s[(n + 1) \div 2]
        ELSE s[n \div 2] + s[n \div 2 + 1]

\* The comparison with >= in place of >.
ExceedsOrEquals(cycle_time, median2, p) ==
    200 * cycle_time >= median2 * (100 + p)

\* cycle_time > median_cycle_time * (1 + threshold_percentage / 100)
Exceeds(cycle_time, median2, p) == 200 * cycle_time > median2 * (100 + p)

\* sum(cycle_time > threshold for cycle_time in cycle_times)
ExceededCount(cycle_times, p) ==
    Cardinality({i \in 1..Len(cycle_times) :
                    Exceeds(cycle_times[i], Median2(cycle_times), p)})

\* d[key] = count on a dict kept in insertion order
DictSet(d, key, count) ==
    IF \E i \in 1..Len(d) : d[i].key = key
    THEN [i \in 1..Len(d) |->
             IF d[i].key = key THEN [key |-> key, count |-> count] ELSE d[i]]
    ELSE Append(d, [key |-> key, count |-> count])

\* The categories when the else is lost: every key is added to category_B.
CategorizeNoElse(cat_A, cat_B, key, exceeded_count) ==
    IF exceeded_count > 0
    THEN [A |-> DictSet(cat_A, key, exceeded_count), B |-> cat_B \cup {key}]
    ELSE [A |-> cat_A, B |-> cat_B \cup {key}]

\* The two categories after the if/else on exceeded_count.
Categorize(cat_A, cat_B, key, exceeded_count) ==
    IF exceeded_count > 0
    THEN [A |-> DictSet(cat_A, key, exceeded_count), B |-> cat_B]
    ELSE [A |-> cat_A, B |-> cat_B \cup {key}]

\* The savefig request of one identifier.
PlotOf(unique_id, filtered_time_values, cycle_times) ==
    [file  |-> <<"cycle_time_vs_time_ID_">> \o Dec(unique_id) \o <<".png">>,
     title |-> Hex(unique_id),
     x     |-> SubSeq(filtered_time_values, 1, Len(filtered_time_values) - 1),
     y     |-> cycle_times]

\* A plot of cycle_times placed inside "if len(cycle_times) > 0".
SavedPlotsInsideIf(saved, unique_id, filtered_time_values, cycle_times) ==
    IF Len(cycle_times) > 0
    THEN Append(saved, PlotOf(unique_id, filtered_time_values, cycle_times))
    ELSE saved

\* plt.savefig(output_file), after the if, for every identifier that passed
\* the two filters
SavedPlots(saved, unique_id, filtered_time_values, cycle_times) ==
    Append(saved, PlotOf(unique_id, filtered_time_values, cycle_times))

\* unique_ids = set(id_values); category_A = {}; category_B = set()
PlotBegin ==
    /\ pc = "plot_data"
    /\ unique_ids' = ToSet(id_values)
    /\ category_A' = <<>>
    /\ category_B' = {}
    /\ pc' = "plot_loop"
    /\ UNCHANGED <<err, num_rows, pgn_doc, data_doc, rows, pgn_list, pgn_values,
                   time_values, id_values, threshold_percentage, plots, files,
                   stdout, msg_id, pgn, epgn>>

\* one pass of "for unique_id in unique_ids", in the set's arbitrary order
PlotIter ==
    /\ pc = "plot_loop"
    /\ \E unique_id \in unique_ids :
         /\ unique_ids' = unique_ids \ {unique_id}
         /\ IF ~InRange(unique_id)
            THEN UNCHANGED <<category_A, category_B, plots>>
            ELSE LET can_id == get_can_id(unique_id)
                 IN  IF can_id \in pgn_values
                     THEN UNCHANGED <<category_A, category_B, plots>>
                     ELSE LET filtered_time_values ==
                                  FilterTimes(id_values, time_values, unique_id)
                              cycle_times == CycleTimes(filtered_time_values)
                              cats ==
                                  IF Len(cycle_times) > 0
                                  THEN Categorize(category_A, category_B,
                                         Hex(can_id),
                                         ExceededCount(cycle_times,
                                                       threshold_percentage))
                                  ELSE [A |-> category_A, B |-> category_B]
                          IN  /\ category_A' = cats.A
                              /\ category_B' = cats.B
                              /\ plots' = SavedPlots(plots, unique_id,
                                     filtered_time_values, cycle_times)
    /\ UNCHANGED <<pc, err, num_rows, pgn_doc, data_doc, rows, pgn_list,
                   pgn_values, time_values, id_values, threshold_percentage,
                   files, stdout, msg_id, pgn, epgn>>

\* The orders in which a set can be iterated.
Orders(S) ==
    {f \in [1..Cardinality(S) -> S] :
        \A i, j \in 1..Cardinality(S) : f[i] = f[j] => i = j}

\* The final guard with its limit one too low.
GuardOffByOne(key) ==
    RangeLimit - 1 > ParseHex(key).val /\ ParseHex(key).val >= 0

\* if 0x800 > int(can_id, 16) >= 0
Guard(key) == InRange(ParseHex(key).val)

RECURSIVE LinesA(_)
LinesA(d) ==
    IF d = <<>> THEN <<>>
    ELSE (IF Guard(Head(d).key)
          THEN <<Head(d).key \o <<":", " ">> \o Dec(Head(d).count)>>
          ELSE <<>>)
         \o LinesA(Tail(d))

RECURSIVE LinesB(_)
LinesB(keys) ==
    IF keys = <<>> THEN <<>>
    ELSE (IF Guard(Head(keys)) THEN <<Head(keys)>> ELSE <<>>)
         \o LinesB(Tail(keys))

\* open(category_A.txt, "w") and the loop over category_A.items()
WriteCategoryA ==
    /\ pc = "plot_loop"
    /\ unique_ids = {}
    /\ files' = ("category_A.txt" :> LinesA(category_A)) @@ files
    /\ pc' = "write_B"
    /\ UNCHANGED <<err, num_rows, pgn_doc, data_doc, rows, pgn_list, pgn_values,
                   time_values, id_values, threshold_percentage, unique_ids,
                   category_A, category_B, plots, stdout, msg_id, pgn, epgn>>

\* open(category_B.txt, "w") and the loop over the set category_B
WriteCategoryB ==
    /\ pc = "write_B"
    /\ \E order \in Orders(category_B) :
         files' = ("category_B.txt" :> LinesB(order)) @@ files
    /\ pc' = "write_blocked"
    /\ UNCHANGED <<err, num_rows, pgn_doc, data_doc, rows, pgn_list, pgn_values,
                   time_values, id_values, threshold_percentage, unique_ids,
                   category_A, category_B, plots, stdout, msg_id, pgn, epgn>>

\* f.write(f"{[hex(x) for x in pgn_values]}"): one line holding the list
WriteBlocked ==
    /\ pc = "write_blocked"
    /\ \E order \in Orders(pgn_values) :
         files' = ("blocked_IDs.txt" :>
                      <<[i \in 1..Len(order) |-> Hex(order[i])]>>) @@ files
    /\ pc' = "print"
    /\ UNCHANGED <<err, num_rows, pgn_doc, data_doc, rows, pgn_list, pgn_values,
                   time_values, id_values, threshold_percentage, unique_ids,
                   category_A, category_B, plots, stdout, msg_id, pgn, epgn>>

\* the three summary lines
PrintSummary ==
    /\ pc = "print"
    /\ stdout' = stdout \o
         << <<"Number of members in Category A: ">> \o Dec(Len(category_A)),
            <<"Number of members in Category B: ">> \o Dec(Cardinality(category_B)),
            <<"Number of extracted PGNs: ">> \o Dec(Cardinality(pgn_values)) >>
    /\ pc' = "done"
    /\ UNCHANGED <<err, num_rows, pgn_doc, data_doc, rows, pgn_list, pgn_values,
                   time_values, id_values, threshold_percentage, unique_ids,
                   category_A, category_B, plots, files, msg_id, pgn, epgn>>

NextPlot ==
    \/ PlotBegin
    \/ PlotIter
    \/ WriteCategoryA
    \/ WriteCategoryB
    \/ WriteBlocked
    \/ PrintSummary

Next ==
    \/ Main
    \/ PgnOpen
    \/ PgnRow
    \/ PgnReturn
    \/ OdsOpen
    \/ OdsRow
    \/ OdsReturn
    \/ NextPlot

Spec == Init /\ [][Next]_vars

---------------------------------------------------------------------------
(* plot_data on its own: the lists a loader can return, handed over directly *)

IdPool == {291, 2047, 2304, 536871203}      \* 0x123, 0x7FF, 0x900, 0x20000123
CoarseTimes == {0, 100}
ReferenceSets == {{}, {291}}

InitPlot(ids, times, refs, p) ==
    /\ InitCommon
    /\ pc = "plot_data"
    /\ num_rows = 0
    /\ pgn_doc = <<>>
    /\ data_doc = <<>>
    /\ pgn_values = refs
    /\ time_values = times
    /\ id_values = ids
    /\ threshold_percentage = p

InitClassify ==
    \E k \in 0..MaxRec :
      \E ids \in [1..k -> IdPool], times \in [1..k -> CoarseTimes] :
        \E refs \in ReferenceSets :
          InitPlot(ids, times, refs, DefaultPercentage)

SpecClassify == InitClassify /\ [][NextPlot]_vars

(* plot_data on captures of the single identifier 0x123 *)

FineTimes == {0, 100, 205, 260, 300}
Percentages == {0, DefaultPercentage}

InitCycle ==
    \E k \in 0..MaxTimes :
      \E times \in [1..k -> FineTimes], p \in Percentages :
        InitPlot([i \in 1..k |-> 291], times, {}, p)

SpecCycle == InitCycle /\ [][NextPlot]_vars

---------------------------------------------------------------------------
(* The PGN decoders on their own *)

MsgIds == {Shl(b3, 24) + Shl(b2, 16) + Shl(b1, 8) + b0 :
              b3 \in {0, 127}, b2 \in {0, 1, 2, 3, 254, 255},
              b1 \in {0, 1, 128, 255}, b0 \in {0, 255}}

InitPgn ==
    /\ pc = "decode"
    /\ err = ""
    /\ num_rows = 0
    /\ pgn_doc = <<>>
    /\ data_doc = <<>>
    /\ rows = <<>>
    /\ pgn_list = <<>>
    /\ pgn_values = {}
    /\ time_values = <<>>
    /\ id_values = <<>>
    /\ threshold_percentage = DefaultPercentage
    /\ unique_ids = {}
    /\ category_A = <<>>
    /\ category_B = {}
    /\ plots = <<>>
    /\ files = NoFiles
    /\ stdout = <<>>
    /\ msg_id \in MsgIds
    /\ pgn = -1
    /\ epgn = -1

CallGetPgn ==
    /\ pc = "decode"
    /\ pgn = -1
    /\ pgn' = get_pgn(msg_id)
    /\ UNCHANGED <<pc, err, num_rows, pgn_doc, data_doc, rows, pgn_list,
                   pgn_values, time_values, id_values, threshold_percentage,
                   unique_ids, category_A, category_B, plots, files, stdout,
                   msg_id, epgn>>

CallExtractPgn ==
    /\ pc = "decode"
    /\ epgn = -1
    /\ epgn' = extract_pgn(msg_id)
    /\ UNCHANGED <<pc, err, num_rows, pgn_doc, data_doc, rows, pgn_list,
                   pgn_values, time_values, id_values, threshold_percentage,
                   unique_ids, category_A, category_B, plots, files, stdout,
                   msg_id, pgn>>

NextPgn == CallGetPgn \/ CallExtractPgn

SpecPgn == InitPgn /\ [][NextPgn]_vars

---------------------------------------------------------------------------
(* Vocabulary of the properties, stated on the state variables alone *)

ObservedIds == {id_values[i] : i \in DOMAIN id_values}
IndicesOf(id) == {i \in DOMAIN id_values : id_values[i] = id}
Occurrences(id) == Cardinality(IndicesOf(id))

\* the low 29 bits
Masked(id) == id % 536870912

Eligible(id) == id >= 0 /\ id < 2048 /\ Masked(id) \notin pgn_values
EligibleIds == {id \in ObservedIds : Eligible(id)}
Visited == IF pc = "plot_data" THEN {} ELSE ObservedIds \ unique_ids

\* the timestamps of one identifier in capture order, and their differences
NthIndexOf(id, k) ==
    CHOOSE i \in IndicesOf(id) :
        Cardinality({j \in IndicesOf(id) : j <= i}) = k
TimesOf(id) == [k \in 1..Occurrences(id) |-> time_values[NthIndexOf(id, k)]]
CyclesOf(id) ==
    [k \in 1..(Occurrences(id) - 1) |-> TimesOf(id)[k + 1] - TimesOf(id)[k]]

\* the k-th smallest value of a sequence, by rank
KthSmallest(c, k) ==
    CHOOSE v \in {c[i] : i \in DOMAIN c} :
        /\ Cardinality({i \in DOMAIN c : c[i] < v}) < k
        /\ k <= Cardinality({i \in DOMAIN c : c[i] <= v})

\* twice the conventional median
TwiceMedian(c) ==
    IF Len(c) % 2 = 1 THEN 2 * KthSmallest(c, (Len(c) + 1) \div 2)
    ELSE KthSmallest(c, Len(c) \div 2) + KthSmallest(c, Len(c) \div 2 + 1)

\* |{i : c[i] > median(c) * (1 + p/100)}|, both sides multiplied by 200
Exceedances(c, p) ==
    Cardinality({i \in DOMAIN c : 200 * c[i] > TwiceMedian(c) * (100 + p)})

KeysA == {category_A[i].key : i \in DOMAIN category_A}
KeyValue(key) == ParseHex(key).val
FlaggedEntries(id) ==
    {i \in DOMAIN category_A : KeyValue(category_A[i].key) = Masked(id)}
IsFlagged(id) == FlaggedEntries(id) # {}
IsClean(id) == \E key \in category_B : KeyValue(key) = Masked(id)
StoredCount(id) ==
    IF IsFlagged(id)
    THEN category_A[CHOOSE i \in FlaggedEntries(id) : TRUE].count
    ELSE 0

Written(name) == IF name \in DOMAIN files THEN files[name] ELSE <<>>

RECURSIVE Before(_, _)
Before(line, c) ==
    IF line = <<>> \/ Head(line) = c THEN <<>>
    ELSE <<Head(line)>> \o Before(Tail(line), c)

LinesOf(name) == {Written(name)[i] : i \in DOMAIN Written(name)}
ListedA == {Before(line, ":") : line \in LinesOf("category_A.txt")}
ListedB == LinesOf("category_B.txt")
Listed == ListedA \cup ListedB

Key123 == <<"0", "x", "1", "2", "3">>
Key7ff == <<"0", "x", "7", "f", "f">>

---------------------------------------------------------------------------
(* C1: no identifier held in category_A or category_B, or listed in        *)
(* category_A.txt or category_B.txt, is ineligible: each is the masked     *)
(* value of an observed raw identifier id with 0 <= id < 0x800 whose       *)
(* masked value is not in the reference set.  An observed 0x900 and an     *)
(* identifier of the reference set are therefore in neither category.      *)
C1_OnlyEligibleListed ==
    \A key \in KeysA \cup category_B \cup Listed :
        /\ ParseHex(key).ok
        /\ \E id \in ObservedIds : Eligible(id) /\ KeyValue(key) = Masked(id)

\* 0x900 and the reference identifier 0x123 were both observed repeatedly
\* and the run completed.
C1_Witness ==
    /\ pc = "done"
    /\ Occurrences(2304) >= 2
    /\ Occurrences(291) >= 2
    /\ 291 \in pgn_values

(* C2, as claimed: after a complete run the identifiers listed in the two  *)
(* files are exactly the eligible identifiers.                             *)
C2_ListedEqualsEligible ==
    pc = "done" =>
        {KeyValue(key) : key \in Listed} = {Masked(id) : id \in EligibleIds}

(* C2, amended: after a complete run the identifiers listed in the two     *)
(* files are exactly the eligible identifiers observed at least twice.     *)
C2_ListedEqualsEligibleRepeated ==
    pc = "done" =>
        {KeyValue(key) : key \in Listed} =
            {Masked(id) : id \in {x \in EligibleIds : Occurrences(x) >= 2}}

\* a completed run with one eligible identifier observed once and another
\* observed repeatedly and listed
C2_Witness ==
    /\ pc = "done"
    /\ \E id \in EligibleIds : Occurrences(id) = 1
    /\ \E id \in EligibleIds :
         Occurrences(id) >= 2 /\ \E key \in Listed : KeyValue(key) = Masked(id)

(* C3: in every state of the classification loop and in the reports, no    *)
(* hex identifier is both a key of category_A and a member of category_B,  *)
(* nor listed in both files.                                               *)
C3_FlaggedCleanDisjoint ==
    /\ KeysA \cap category_B = {}
    /\ ListedA \cap ListedB = {}

\* a completed run with a flagged and a clean identifier
C3_Witness ==
    /\ pc = "done"
    /\ ListedA # {}
    /\ ListedB # {}

(* C4: an eligible identifier with at least 2 occurrences that has been    *)
(* visited is Flagged with count k when k > 0 and Clean when k = 0, where  *)
(* k is the number of its cycle times strictly greater than                *)
(* median * (1 + p/100).  Timestamps [0,100,205,300] give Clean and        *)
(* [0,100,260,300] give Flagged(1) at p = 5.                               *)
C4_OutcomeIsExceedanceCount ==
    /\ \A id \in Visited :
         (Eligible(id) /\ Occurrences(id) >= 2) =>
            LET k == Exceedances(CyclesOf(id), threshold_percentage)
            IN  IF k > 0
                THEN /\ Cardinality(FlaggedEntries(id)) = 1
                     /\ StoredCount(id) = k
                     /\ ~IsClean(id)
                ELSE /\ IsClean(id)
                     /\ ~IsFlagged(id)
    /\ (pc = "done" /\ threshold_percentage = 5
        /\ id_values = <<291, 291, 291, 291>>) =>
          /\ (time_values = <<0, 100, 205, 300>> =>
                category_A = <<>> /\ category_B = {Key123})
          /\ (time_values = <<0, 100, 260, 300>> =>
                /\ category_A = <<[key |-> Key123, count |-> 1]>>
                /\ category_B = {})

\* the capture whose largest cycle time equals the threshold, classified
C4_Witness ==
    /\ pc = "done"
    /\ threshold_percentage = 5
    /\ time_values = <<0, 100, 205, 300>>
    /\ IsClean(291)

(* C5: get_pgn(x) equals extract_pgn(x) = (x >> 8) & 0xFFFF for every raw  *)
(* identifier x.                                                           *)
C5_GetPgnEqualsExtractPgn ==
    (pgn # -1 /\ epgn # -1) => pgn = epgn

\* nothing has been produced by plot_data
NoOutput ==
    /\ plots = <<>>
    /\ files = NoFiles
    /\ stdout = <<>>
    /\ category_A = <<>>
    /\ category_B = {}

BadCaptureRows == {BadFieldsRow, BadTimeRow, BadIdRow}
BadReferenceRows == {<<<<"z", "z">>>>}

ScannedRows(doc, n) ==
    UNION {{doc[t][i] : i \in {j \in DOMAIN doc[t] : j >= 26 /\ j <= 25 + n}} :
              t \in DOMAIN doc}

ReferenceRows(doc) == UNION {{doc[t][i] : i \in DOMAIN doc[t]} : t \in DOMAIN doc}
RowsAhead == {rows[i] : i \in DOMAIN rows}

(* C6: a scanned row that cannot be parsed, in the reference document or   *)
(* in the row window of the capture document, makes the loader raise: the  *)
(* run is still in that loader with the row ahead of it, or has failed;    *)
(* it never reaches plot_data, and no plot, file or summary is produced.   *)
C6_MalformedRowAborts ==
    /\ (ReferenceRows(pgn_doc) \cap BadReferenceRows # {}) =>
          /\ pc \in {"pgn_loop", "failed"}
          /\ pc = "pgn_loop" => RowsAhead \cap BadReferenceRows # {}
          /\ NoOutput
    /\ (ScannedRows(data_doc, num_rows) \cap BadCaptureRows # {}) =>
          /\ pc \in {"ods_loop", "failed"}
          /\ pc = "ods_loop" => RowsAhead \cap BadCaptureRows # {}
          /\ NoOutput
    /\ pc = "failed" => (err # "" /\ NoOutput)

\* the run failed on a row of the window after a record had been parsed
C6_Witness ==
    /\ pc = "failed"
    /\ time_values # <<>>
    /\ ScannedRows(data_doc, num_rows) \cap BadCaptureRows # {}

\* the record each well-formed row of the documents stands for
RecordOf(row) ==
    IF row = RecRow(100, Id123) THEN <<[t |-> 100, id |-> 291]>>
    ELSE IF row = RecRow(0, Id123) THEN <<[t |-> 0, id |-> 291]>>
    ELSE IF row = RecRow(100, Id900) THEN <<[t |-> 100, id |-> 2304]>>
    ELSE IF row = RecRow(0, Id900) THEN <<[t |-> 0, id |-> 2304]>>
    ELSE <<>>

RECURSIVE RecordsFrom(_, _, _, _)
RecordsFrom(doc, t, i, n) ==
    IF t > Len(doc) THEN <<>>
    ELSE IF i > Len(doc[t]) \/ i > 25 + n THEN RecordsFrom(doc, t + 1, 26, n)
    ELSE RecordOf(doc[t][i]) \o RecordsFrom(doc, t, i + 1, n)

Returned == [i \in DOMAIN time_values |-> [t |-> time_values[i], id |-> id_values[i]]]

(* C7: once parse_ods_file has returned, time_values and id_values have    *)
(* equal length and hold exactly one record per row at position            *)
(* 26..25+N of its table that has a cell, in document order; with N = 0    *)
(* they are empty.                                                         *)
C7_WindowRecords ==
    /\ Len(time_values) = Len(id_values)
    /\ (data_doc # <<>> /\ pc \notin {"ods_loop", "failed"}) =>
          /\ Returned = RecordsFrom(data_doc, 1, 26, num_rows)
          /\ num_rows = 0 => Returned = <<>>

\* a one-row window between a header record and a record after the window,
\* in a document whose second sheet has a record in its own row 26
C7_Witness ==
    /\ pc = "plot_data"
    /\ num_rows = 1
    /\ Len(data_doc) = 2
    /\ Len(data_doc[1]) = 27
    /\ data_doc[1][25] = RecRow(0, Id123)
    /\ data_doc[1][26] = RecRow(100, Id123)
    /\ data_doc[1][27] = RecRow(0, Id123)
    /\ Returned = <<[t |-> 100, id |-> 291], [t |-> 0, id |-> 2304]>>

\* a savefig request names cycle_time_vs_time_ID_<decimal id>.png
PlotNameOk(plot) ==
    /\ Len(plot.file) >= 3
    /\ plot.file[1] = "cycle_time_vs_time_ID_"
    /\ plot.file[Len(plot.file)] = ".png"
    /\ ParseFloat(SubSeq(plot.file, 2, Len(plot.file) - 1)).ok

PlotId(plot) == ParseFloat(SubSeq(plot.file, 2, Len(plot.file) - 1)).val
PlotsFor(id) == {i \in DOMAIN plots : PlotId(plots[i]) = id}

(* C8: plot_data requests exactly one plot, named from the decimal raw     *)
(* identifier, for every eligible identifier it has visited and none for   *)
(* any other; an eligible identifier with fewer than 2 occurrences gets an *)
(* empty plot, enters neither category and raises nothing.                 *)
C8_OnePlotPerEligible ==
    /\ err = ""
    /\ \A i \in DOMAIN plots : PlotNameOk(plots[i]) /\ PlotId(plots[i]) \in ObservedIds
    /\ \A id \in ObservedIds :
         Cardinality(PlotsFor(id)) = IF id \in Visited /\ Eligible(id) THEN 1 ELSE 0
    /\ \A id \in Visited :
         (Eligible(id) /\ Occurrences(id) < 2) =>
            /\ \A i \in PlotsFor(id) : plots[i].x = <<>> /\ plots[i].y = <<>>
            /\ ~IsFlagged(id)
            /\ ~IsClean(id)

\* a completed run with an eligible identifier observed once, an ineligible
\* one, and a second eligible identifier
C8_Witness ==
    /\ pc = "done"
    /\ \E id \in EligibleIds : Occurrences(id) = 1
    /\ \E id \in ObservedIds : ~Eligible(id)
    /\ Len(plots) = 2

\* the number printed at the end of the i-th summary line
PrintedCount(i) == ParseFloat(Tail(stdout[i])).val

(* C9: the range guard of the report writers never drops an entry: every   *)
(* key of category_A and member of category_B lies in 0..0x7FF, distinct   *)
(* eligible identifiers have distinct keys, and each file holds as many    *)
(* lines as the printed count of its category.                             *)
C9_GuardDropsNothing ==
    /\ \A key \in KeysA \cup category_B :
         ParseHex(key).ok /\ KeyValue(key) >= 0 /\ KeyValue(key) < 2048
    /\ \A a, b \in EligibleIds : a # b => Hex(get_can_id(a)) # Hex(get_can_id(b))
    /\ "category_A.txt" \in DOMAIN files =>
          Len(files["category_A.txt"]) = Len(category_A)
    /\ "category_B.txt" \in DOMAIN files =>
          Len(files["category_B.txt"]) = Cardinality(category_B)
    /\ pc = "done" =>
          /\ Len(stdout) = 3
          /\ PrintedCount(1) = Len(files["category_A.txt"])
          /\ PrintedCount(2) = Len(files["category_B.txt"])

\* a completed run that flagged one identifier and found 0x7ff clean
C9_Witness ==
    /\ pc = "done"
    /\ Key7ff \in category_B
    /\ Len(files["category_A.txt"]) = 1

NonDecreasing(t) == \A i \in 1..(Len(t) - 1) : t[i] <= t[i + 1]

(* C10: for a visited eligible identifier whose timestamps are             *)
(* non-decreasing, with p >= 0, the exceedance count is at most            *)
(* floor(n/2) for n cycle times; an identifier observed exactly twice is   *)
(* Clean.                                                                  *)
C10_CountAtMostHalf ==
    \A id \in Visited :
        (/\ Eligible(id)
         /\ Occurrences(id) >= 2
         /\ NonDecreasing(TimesOf(id))
         /\ threshold_percentage >= 0) =>
            /\ IsFlagged(id) \/ IsClean(id)
            /\ StoredCount(id) <= (Occurrences(id) - 1) \div 2
            /\ Occurrences(id) = 2 => (IsClean(id) /\ ~IsFlagged(id))

\* four cycle times of a non-decreasing capture, two of them exceeding
C10_Witness ==
    /\ pc = "done"
    /\ Len(time_values) = 5
    /\ NonDecreasing(TimesOf(291))
    /\ StoredCount(291) = 2

===========================================================================
